---- MODULE Spec2Model ----
(***************************************************************************)
(* Model of src/app.py (Word Explorer): the markdown link rewriter         *)
(* linkify_list_section, the completion wrapper ask_openai, and the two    *)
(* button-triggered script cycles (word lookup, tense transformer).        *)
(*                                                                         *)
(* A Python str is modelled as a sequence of one-character strings, so     *)
(* that strip, lower, substring search, lstrip, replace and the f-string   *)
(* are computed character by character as the code computes them.          *)
(***************************************************************************)
EXTENDS Naturals, Sequences, FiniteSets, TLC

VARIABLES
    \* ---- one call of linkify_list_section ----
    text,                      \* argument text
    section_header_keywords,   \* argument section_header_keywords
    lang,                      \* argument lang
    lines,                     \* local: text.splitlines()
    result,                    \* local: list of output lines
    current_section,           \* local: the section cursor
    idx,                       \* position of the for loop in lines
    lpc,                       \* "entry", "loop" or "returned"
    output,                    \* the returned string
    \* ---- one run of the streamlit script ----
    cycle,                     \* "idle", "tab1" (word lookup) or "tab2" (tenses)
    language,                  \* the selectbox value
    input,                     \* the text_input value the button was pressed with
    status,                    \* per category: "unissued", "inflight", "resolved", "rendered"
    outcome,                   \* per category: what the completion endpoint did
    response,                  \* per category: the value ask_openai returned
    raised,                    \* an exception escaped ask_openai into the script
    page                       \* the markdown blocks rendered so far, in order

linkifyVars == <<text, section_header_keywords, lang, lines, result,
                 current_section, idx, lpc, output>>
appVars == <<cycle, language, input, status, outcome, response, raised, page>>
vars == <<linkifyVars, appVars>>

----------------------------------------------------------------------------
(* Python string primitives                                                *)

\* str.strip() / str.lstrip() with no argument remove these
Whitespace == {" ", "\t", "\n", "\r", "\f"}

Uppercase == <<"A","B","C","D","E","F","G","H","I","J","K","L","M",
               "N","O","P","Q","R","S","T","U","V","W","X","Y","Z">>
Lowercase == <<"a","b","c","d","e","f","g","h","i","j","k","l","m",
               "n","o","p","q","r","s","t","u","v","w","x","y","z">>

LowerChar(c) ==
    IF \E i \in DOMAIN Uppercase : Uppercase[i] = c
    THEN Lowercase[CHOOSE i \in DOMAIN Uppercase : Uppercase[i] = c]
    ELSE c

\* str.lower()
Lower(s) == [i \in 1..Len(s) |-> LowerChar(s[i])]

SetMin(S) == CHOOSE x \in S : \A y \in S : x <= y
SetMax(S) == CHOOSE x \in S : \A y \in S : y <= x

\* str.lstrip(chars): drop leading characters that are in chars
LStripChars(s, chars) ==
    LET keep == {i \in 1..Len(s) : s[i] \notin chars}
    IN  IF keep = {} THEN <<>> ELSE SubSeq(s, SetMin(keep), Len(s))

\* str.strip(): drop leading and trailing whitespace
Strip(s) ==
    LET keep == {i \in 1..Len(s) : s[i] \notin Whitespace}
    IN  IF keep = {} THEN <<>> ELSE SubSeq(s, SetMin(keep), SetMax(keep))

\* s.startswith(prefix)
StartsWith(s, prefix) ==
    /\ Len(prefix) <= Len(s)
    /\ SubSeq(s, 1, Len(prefix)) = prefix

\* sub in s
Contains(sub, s) ==
    \E i \in 0..Len(s) :
        /\ i + Len(sub) <= Len(s)
        /\ SubSeq(s, i + 1, i + Len(sub)) = sub

\* str.replace(old, new) for a one-character old
RECURSIVE Replace(_, _, _)
Replace(s, old, new) ==
    IF s = <<>> THEN <<>>
    ELSE (IF Head(s) = old THEN new ELSE <<Head(s)>>) \o Replace(Tail(s), old, new)

\* str.splitlines() on "\n"-separated text: line k runs from after the
\* (k-1)-th "\n" to before the k-th; a final "\n" opens no further line
SplitLines(s) ==
    LET nl == {i \in 1..Len(s) : s[i] = "\n"}
        n == Cardinality(nl) + (IF Len(s) > 0 /\ s[Len(s)] # "\n" THEN 1 ELSE 0)
        first(k) == IF k = 1 THEN 1
                    ELSE 1 + CHOOSE i \in nl : Cardinality({j \in nl : j <= i}) = k - 1
        last(k) == IF k > Cardinality(nl) THEN Len(s)
                   ELSE (CHOOSE i \in nl : Cardinality({j \in nl : j <= i}) = k) - 1
    IN  [k \in 1..n |-> SubSeq(s, first(k), last(k))]

\* "\n".join(ls)
RECURSIVE JoinLines(_)
JoinLines(ls) ==
    IF ls = <<>> THEN <<>>
    ELSE IF Len(ls) = 1 THEN ls[1]
    ELSE ls[1] \o <<"\n">> \o JoinLines(Tail(ls))

----------------------------------------------------------------------------
(* linkify_list_section (src/app.py lines 22-42)                           *)

\* None, as a value no keyword can equal (keywords hold one-character items)
None == <<"<None>">>

synonym == <<"s","y","n","o","n","y","m">>
phonetically == <<"p","h","o","n","e","t","i","c","a","l","l","y">>
antonym == <<"a","n","t","o","n","y","m">>
nym == <<"n","y","m">>
English == <<"E","n","g","l","i","s","h">>
Italian == <<"I","t","a","l","i","a","n">>

\* line 34: current_section in ["synonym", "phonetically"]
EligibleSections == {synonym, phonetically}

\* line 25: current_section = None
InitialSectionPreset == synonym
InitialSection == None

\* lines 29-32: for keyword in section_header_keywords: if keyword in
\* line_strip: current_section = keyword; break
RECURSIVE ScanKeywords(_, _, _, _)
ScanKeywords(keywords, k, line_strip, section) ==
    IF k > Len(keywords) THEN section
    ELSE IF Contains(keywords[k], line_strip) THEN keywords[k]
    ELSE ScanKeywords(keywords, k + 1, line_strip, section)

\* a cursor that a line without a keyword clears
UpdateSectionClearing(keywords, line, section) ==
    ScanKeywords(keywords, 1, Lower(Strip(line)), None)
\* lines 28-32: the cursor after the keyword scan of one line
UpdateSection(keywords, line, section) ==
    ScanKeywords(keywords, 1, Lower(Strip(line)), section)

\* a bullet test that skips bullets which already hold a link
IsBulletUnlinked(line) ==
    /\ StartsWith(Strip(line), <<"-", " ">>)
    /\ ~StartsWith(Strip(line), <<"-", " ", "[">>)
\* line 34: re.match(r"^- ", line.strip())
IsBullet(line) == StartsWith(Strip(line), <<"-", " ">>)

\* line 35: line.strip().lstrip("- ").strip()
Phrase(line) == Strip(LStripChars(Strip(line), {"-", " "}))

\* line 37: f"[{phrase}](?word={phrase.replace(' ', '%20')}&lang={lang})"
Link(phrase, lng) ==
    <<"[">> \o phrase \o <<"]", "(", "?", "w", "o", "r", "d", "=">>
        \o Replace(phrase, " ", <<"%", "2", "0">>)
        \o <<"&", "l", "a", "n", "g", "=">> \o lng \o <<")">>

\* lines 28-40: one iteration of the loop over lines; st holds the two locals
LoopBody(line, st, keywords, lng) ==
    LET section == UpdateSection(keywords, line, st.current_section)
    IN  IF section \in EligibleSections /\ IsBullet(line)
        THEN IF Phrase(line) # <<>>
             THEN [current_section |-> section,
                   result |-> Append(st.result, <<"-", " ">> \o Link(Phrase(line), lng))]
             ELSE [current_section |-> section, result |-> st.result]
        ELSE [current_section |-> section, result |-> Append(st.result, line)]

RECURSIVE LinkifyLoop(_, _, _, _, _)
LinkifyLoop(ls, i, st, keywords, lng) ==
    IF i > Len(ls) THEN st
    ELSE LinkifyLoop(ls, i + 1, LoopBody(ls[i], st, keywords, lng), keywords, lng)

\* lines 22-42: the whole function
linkify_list_section(t, keywords, lng) ==
    JoinLines(LinkifyLoop(SplitLines(t), 1,
                          [current_section |-> InitialSection, result |-> <<>>],
                          keywords, lng).result)

----------------------------------------------------------------------------
(* Inputs of linkify_list_section                                          *)

\* the longest text, in lines
MaxLines == 3

HeaderSynonyms == <<"#","#","#"," ","S","y","n","o","n","y","m","s">>
HeaderAntonyms == <<"A","n","t","o","n","y","m","s">>
BulletJoy == <<"-"," ","j","o","y">>
BulletWellOff == <<"-"," ","w","e","l","l"," ","o","f","f">>
BulletIndented == <<" "," ","-"," ","j","o","y"," ">>
BulletDashOnly == <<"-"," ","-">>
BulletDashWord == <<"-"," ","-","i","s","h">>
PlainLine == <<"j","o","y">>
BlankLine == <<>>

LineSet == {HeaderSynonyms, HeaderAntonyms, BulletJoy, BulletWellOff, BulletIndented,
            BulletDashOnly, BulletDashWord, PlainLine, BlankLine}

\* the texts: up to MaxLines lines joined by "\n"
TextSet == {JoinLines(ls) : ls \in UNION {[1..n -> LineSet] : n \in 0..MaxLines}}

\* the list the script passes for synonyms (line 114) and two longer lists;
\* the list of line 122, <<phonetically>>, is exercised by Rendering below
KeywordLists == {<<synonym>>, <<synonym, antonym>>, <<nym, synonym>>}

\* line 15: the selectbox options
Languages == {English, Italian}

----------------------------------------------------------------------------
(* One call of linkify_list_section, one loop iteration per step           *)

AppIdle ==
    /\ cycle = "idle"
    /\ language = English
    /\ input = <<>>
    /\ status = <<>>
    /\ outcome = <<>>
    /\ response = <<>>
    /\ raised = FALSE
    /\ page = <<>>

InitLinkify ==
    /\ text \in TextSet
    /\ section_header_keywords \in KeywordLists
    /\ lang \in Languages
    /\ lines = <<>>
    /\ result = <<>>
    /\ current_section = None
    /\ idx = 0
    /\ lpc = "entry"
    /\ output = <<>>
    /\ AppIdle

\* lines 23-25
LinkifyEnter ==
    /\ lpc = "entry"
    /\ lines' = SplitLines(text)
    /\ result' = <<>>
    /\ current_section' = InitialSection
    /\ idx' = 1
    /\ lpc' = "loop"
    /\ UNCHANGED <<text, section_header_keywords, lang, output, appVars>>

\* lines 27-40
LinkifyIterate ==
    /\ lpc = "loop"
    /\ idx <= Len(lines)
    /\ LET st == LoopBody(lines[idx],
                          [current_section |-> current_section, result |-> result],
                          section_header_keywords, lang)
       IN  /\ current_section' = st.current_section
           /\ result' = st.result
    /\ idx' = idx + 1
    /\ UNCHANGED <<text, section_header_keywords, lang, lines, lpc, output, appVars>>

\* line 42
LinkifyReturn ==
    /\ lpc = "loop"
    /\ idx > Len(lines)
    /\ output' = JoinLines(result)
    /\ lpc' = "returned"
    /\ UNCHANGED <<text, section_header_keywords, lang, lines, result,
                   current_section, idx, appVars>>

NextLinkify == LinkifyEnter \/ LinkifyIterate \/ LinkifyReturn

SpecLinkify == InitLinkify /\ [][NextLinkify]_vars

----------------------------------------------------------------------------
(* Properties of linkify_list_section, under SpecLinkify                   *)

\* the loop has started (lines holds the split text)
Started == lpc \in {"loop", "returned"}

\* the keyword scan, stated from the list: some keyword occurs in the line
KeywordIn(line) ==
    \E k \in 1..Len(section_header_keywords) :
        Contains(section_header_keywords[k], Lower(Strip(line)))

FirstKeywordIn(line) ==
    LET hits == {k \in 1..Len(section_header_keywords) :
                    Contains(section_header_keywords[k], Lower(Strip(line)))}
    IN  section_header_keywords[SetMin(hits)]

\* the cursor the sticky rule gives after the first i lines
RECURSIVE StickyCursor(_)
StickyCursor(i) ==
    IF i = 0 THEN None
    ELSE IF KeywordIn(lines[i]) THEN FirstKeywordIn(lines[i])
    ELSE StickyCursor(i - 1)

\* the payload as the specification defines it: the trimmed line without
\* exactly its leading "- ", trimmed again
PayloadOf(line) == Strip(SubSeq(Strip(line), 3, Len(Strip(line))))

\* out is line with only its payload replaced by the link construct
OnlyPayloadWrapped(line, out) ==
    /\ IsBullet(line)
    /\ PayloadOf(line) # <<>>
    /\ \E a \in 0..Len(line) :
          /\ a + Len(PayloadOf(line)) <= Len(line)
          /\ SubSeq(line, a + 1, a + Len(PayloadOf(line))) = PayloadOf(line)
          /\ out = SubSeq(line, 1, a) \o Link(PayloadOf(line), lang)
                     \o SubSeq(line, a + Len(PayloadOf(line)) + 1, Len(line))

\* C2: the output of linkify_list_section has as many lines as its input:
\* no line is dropped or added, bullets with an empty payload included.
C2_LineCountPreserved ==
    lpc = "returned" => Len(result) = Len(lines)

\* C3: every output line i is input line i, or input line i with only its
\* payload replaced by the link construct (indentation and everything else
\* kept); lines that are not bullets are output unchanged.
C3_OnlyPayloadAltered ==
    lpc = "returned" =>
        /\ Len(result) = Len(lines)
        /\ \A i \in 1..Len(lines) :
              /\ result[i] = lines[i] \/ OnlyPayloadWrapped(lines[i], result[i])
              /\ ~IsBullet(lines[i]) => result[i] = lines[i]

\* C4: a bullet line in an eligible active section is output as
\* "- [p](?word=q&lang=L)", p the line's text after removing exactly the
\* leading "- " and trimming, q being p with each space replaced by "%20".
C4_BulletBecomesLinkOfPayload ==
    (/\ Started
     /\ idx > 1
     /\ IsBullet(lines[idx - 1])
     /\ current_section \in EligibleSections)
    => /\ result # <<>>
       /\ result[Len(result)] =
              <<"-", " ">> \o Link(PayloadOf(lines[idx - 1]), lang)
       /\ ~Contains(<<" ">>, SubSeq(result[Len(result)], 4 + Len(PayloadOf(lines[idx - 1])),
                                    Len(result[Len(result)])))

\* no keyword of the list has been seen in lines 1..i
NoKeywordUpTo(i) == \A j \in 1..i : ~KeywordIn(lines[j])

\* C5: the section cursor starts unset, and every bullet line that comes
\* before any recognized header keyword is output unmodified.
C5_BulletBeforeHeaderUnmodified ==
    Started =>
        /\ idx = 1 => current_section = None
        /\ \A i \in 1..(idx - 1) :
              (IsBullet(lines[i]) /\ NoKeywordUpTo(i)) =>
                  /\ i <= Len(result)
                  /\ result[i] = lines[i]

\* C5 witness: a call returned in which a bullet before the first header was
\* kept as it was while a bullet after the header was rewritten
C5_Witness ==
    /\ lpc = "returned"
    /\ \E i \in 1..Len(lines) :
          /\ IsBullet(lines[i])
          /\ NoKeywordUpTo(i)
          /\ result[i] = lines[i]
          /\ \E j \in (i + 1)..Len(lines) :
                /\ IsBullet(lines[j])
                /\ j <= Len(result)
                /\ result[j] = <<"-", " ">> \o Link(Phrase(lines[j]), lang)

\* the first pass rewrote the bullet of line i
LinkedAt(i) ==
    /\ IsBullet(lines[i])
    /\ Phrase(lines[i]) # <<>>
    /\ StickyCursor(i) \in EligibleSections

\* C7: linkify_list_section is not idempotent: when a text has an eligible
\* header followed by a bullet with a payload, a second application to the
\* output differs from the output, each linked bullet being wrapped again.
C7_NotIdempotent ==
    (lpc = "returned" /\ \E i \in 1..Len(lines) : LinkedAt(i)) =>
        LET again == linkify_list_section(output, section_header_keywords, lang)
        IN  /\ again # output
            /\ \A i \in 1..Len(result) :
                  StartsWith(result[i], <<"-", " ", "[">>) =>
                      /\ i <= Len(SplitLines(again))
                      /\ SplitLines(again)[i] =
                            <<"-", " ">> \o Link(SubSeq(result[i], 3, Len(result[i])), lang)

\* C7 witness: a call returned that linked two bullets
C7_Witness ==
    /\ lpc = "returned"
    /\ \E i, j \in 1..Len(lines) : i < j /\ LinkedAt(i) /\ LinkedAt(j)
    /\ Cardinality({i \in 1..Len(result) : StartsWith(result[i], <<"-", " ", "[">>)}) >= 2

\* C10: the cursor is sticky: after a line it is the first keyword of the
\* list occurring in the line's lowercased trimmed text, if any, and else
\* what it was before the line; no other line clears or changes it.
C10_CursorSticky ==
    (Started /\ idx >= 1) => current_section = StickyCursor(idx - 1)

\* C10 witness: a bullet separated from its eligible header by a line with
\* no keyword was still rewritten
C10_Witness ==
    /\ lpc = "returned"
    /\ Len(lines) = 3
    /\ Len(result) = 3
    /\ KeywordIn(lines[1])
    /\ ~KeywordIn(lines[2]) /\ ~IsBullet(lines[2])
    /\ ~KeywordIn(lines[3]) /\ IsBullet(lines[3])
    /\ current_section \in EligibleSections
    /\ result[3] = <<"-", " ">> \o Link(Phrase(lines[3]), lang)

----------------------------------------------------------------------------
(* ask_openai and the two script cycles (src/app.py lines 46-62, 65-200)   *)

\* the ask_openai calls of the word lookup, in script order
\* (lines 95, 101, 107, 113, 121), and the call of the tense tab (line 196)
WordCategories == <<"meta", "definition", "example", "synonyms", "phonetics">>
TenseCategory == "tenses"
Categories == {WordCategories[i] : i \in DOMAIN WordCategories} \cup {TenseCategory}

CategoriesOf(cyc) ==
    IF cyc = "tab1" THEN {WordCategories[i] : i \in DOMAIN WordCategories}
    ELSE IF cyc = "tab2" THEN {TenseCategory}
    ELSE {}

CatIndex(c) == CHOOSE i \in DOMAIN WordCategories : WordCategories[i] = c

\* what the completion endpoint can do with one request: return a content
\* string, or make the try block (lines 49-60) raise an exception
ContentPadded == <<" ", "j", "o", "y", "\n">>
ContentSynonyms == HeaderSynonyms \o <<"\n">> \o BulletJoy \o <<"\n">> \o BulletDashOnly
HeaderPhonetically == <<"#","#","#"," ","P","h","o","n","e","t","i","c","a","l","l","y",
                        " ","S","i","m","i","l","a","r"," ","W","o","r","d","s">>
ContentPhonetics == HeaderPhonetically \o <<"\n">> \o BulletWellOff
TimeoutMessage == <<"t", "i", "m", "e", "d", " ", "o", "u", "t">>

OutcomeSet ==
    {[kind |-> "text", body |-> b] : b \in {ContentPadded, ContentSynonyms, ContentPhonetics}}
    \cup {[kind |-> "raise", body |-> TimeoutMessage]}

Pending == [kind |-> "pending", body |-> <<>>]
NoResponse == None

\* line 62: f"Error: {str(e)}"
ErrorPrefix == <<"E", "r", "r", "o", "r", ":", " ">>

\* ask_openai without the except clause: the exception leaves the function
ask_openai_uncaught(o) ==
    IF o.kind = "text"
    THEN [value |-> Strip(o.body), raises |-> FALSE]
    ELSE [value |-> NoResponse, raises |-> TRUE]
\* lines 46-62: the stripped content, or the exception turned into a string
ask_openai(o) ==
    IF o.kind = "text"
    THEN [value |-> Strip(o.body), raises |-> FALSE]
    ELSE [value |-> ErrorPrefix \o o.body, raises |-> FALSE]

\* str.split("\n"): as splitlines, but a final "\n" opens an empty last piece
SplitOnNewline(s) ==
    IF s # <<>> /\ s[Len(s)] = "\n" THEN Append(SplitLines(s), <<>>)
    ELSE IF s = <<>> THEN <<BlankLine>>
    ELSE SplitLines(s)

\* lines 115, 123: re.sub(r"^<header>\n", "", s, flags=re.MULTILINE) removes
\* every line that is exactly the header and is ended by "\n"
RemoveHeaderLines(s, header) ==
    LET pieces == SplitOnNewline(s)
        Other(l) == l # header
    IN  JoinLines(SelectSeq(SubSeq(pieces, 1, Len(pieces) - 1), Other)
                    \o <<pieces[Len(pieces)]>>)

\* line 96
MetaTitle == <<"*","*","W","o","r","d"," ","L","e","v","e","l"," ","I","n","f","o","*","*",
               "\n","\n">>

\* lines 96, 102, 108, 114-116, 122-124, 197: the markdown rendered for a result
Rendering(c, value, lng) ==
    IF c = "meta" THEN MetaTitle \o value
    ELSE IF c = "synonyms"
    THEN RemoveHeaderLines(linkify_list_section(value, <<synonym>>, lng), HeaderSynonyms)
    ELSE IF c = "phonetics"
    THEN RemoveHeaderLines(linkify_list_section(value, <<phonetically>>, lng),
                           HeaderPhonetically)
    ELSE value

\* the text_input values a button is pressed with
InputSet == {<<>>, <<" ">>, <<"J", "o", "y">>}

\* lines 84, 148: "trigger and word" runs the block when the string is non-empty
Truthy(s) == s # <<>>

\* a script position that lets every request start as soon as the cycle runs
ReadyAtOnce(c) ==
    IF c = TenseCategory THEN cycle = "tab2" ELSE cycle = "tab1"
\* a script position that waits for the earlier answers but not their rendering
ReadyOnceResolved(c) ==
    IF c = TenseCategory THEN cycle = "tab2"
    ELSE /\ cycle = "tab1"
         /\ \A i \in 1..(CatIndex(c) - 1) :
               status[WordCategories[i]] \in {"resolved", "rendered"}
\* lines 95-124: the script reaches the ask_openai call of c when every
\* earlier call has returned and its st.markdown has run
Ready(c) ==
    IF c = TenseCategory THEN cycle = "tab2"
    ELSE /\ cycle = "tab1"
         /\ \A i \in 1..(CatIndex(c) - 1) : status[WordCategories[i]] = "rendered"

LinkifyIdle ==
    /\ text = <<>>
    /\ section_header_keywords = <<>>
    /\ lang = English
    /\ lines = <<>>
    /\ result = <<>>
    /\ current_section = None
    /\ idx = 0
    /\ lpc = "entry"
    /\ output = <<>>

Init ==
    /\ cycle = "idle"
    /\ language = English
    /\ input = <<>>
    /\ status = [c \in Categories |-> "unissued"]
    /\ outcome = [c \in Categories |-> Pending]
    /\ response = [c \in Categories |-> NoResponse]
    /\ raised = FALSE
    /\ page = <<>>
    /\ LinkifyIdle

\* a rerun of the script starts from an empty page and fresh locals
StartRun(tab, w, lng) ==
    /\ language' = lng
    /\ input' = w
    /\ status' = [c \in Categories |-> "unissued"]
    /\ outcome' = [c \in Categories |-> Pending]
    /\ response' = [c \in Categories |-> NoResponse]
    /\ raised' = FALSE
    /\ page' = <<>>
    /\ cycle' = IF Truthy(w) THEN tab ELSE "idle"
    /\ UNCHANGED linkifyVars

\* lines 80-84: the Explore Word button pressed with the word w
ExploreWord(w, lng) ==
    /\ cycle = "idle"
    /\ StartRun("tab1", w, lng)

\* lines 144-148: the Transform Sentence button pressed with the sentence w
TransformSentence(w, lng) ==
    /\ cycle = "idle"
    /\ StartRun("tab2", w, lng)

\* lines 47-57 (and the heading rendered just before, lines 99, 105, 111,
\* 119): the request of category c is sent
IssueRequest(c) ==
    /\ status[c] = "unissued"
    /\ Ready(c)
    /\ status' = [status EXCEPT ![c] = "inflight"]
    /\ page' = IF c \in {"meta", TenseCategory} THEN page
               ELSE Append(page, [kind |-> "heading", category |-> c, body |-> <<>>])
    /\ UNCHANGED <<cycle, language, input, outcome, response, raised, linkifyVars>>

\* lines 49-62: the endpoint answers with o and ask_openai returns
Resolve(c, o) ==
    /\ status[c] = "inflight"
    /\ outcome' = [outcome EXCEPT ![c] = o]
    /\ LET r == ask_openai(o)
       IN  IF r.raises
           THEN /\ raised' = TRUE
                /\ cycle' = "idle"
                /\ status' = [status EXCEPT ![c] = "aborted"]
                /\ UNCHANGED response
           ELSE /\ response' = [response EXCEPT ![c] = r.value]
                /\ status' = [status EXCEPT ![c] = "resolved"]
                /\ UNCHANGED <<raised, cycle>>
    /\ UNCHANGED <<language, input, page, linkifyVars>>

\* lines 96, 102, 108, 114-116, 122-128, 197: the result of c is rendered;
\* after the last one the dictionary link follows (English only, tab1) and
\* the script ends
Render(c) ==
    /\ status[c] = "resolved"
    /\ status' = [status EXCEPT ![c] = "rendered"]
    /\ LET block == [kind |-> "result", category |-> c,
                     body |-> Rendering(c, response[c], language)]
           last == \A d \in CategoriesOf(cycle) \ {c} : status[d] = "rendered"
       IN  /\ page' = IF last /\ cycle = "tab1" /\ language = English
                      THEN page \o <<block, [kind |-> "link", category |-> c,
                                             body |-> Lower(input)]>>
                      ELSE Append(page, block)
           /\ cycle' = IF last THEN "idle" ELSE cycle
    /\ UNCHANGED <<language, input, outcome, response, raised, linkifyVars>>

Next ==
    \/ \E w \in InputSet, lng \in Languages : ExploreWord(w, lng)
    \/ \E w \in InputSet, lng \in Languages : TransformSentence(w, lng)
    \/ \E c \in Categories : IssueRequest(c)
    \/ \E c \in Categories, o \in OutcomeSet : Resolve(c, o)
    \/ \E c \in Categories : Render(c)

Spec == Init /\ [][Next]_vars

----------------------------------------------------------------------------
(* Properties of the script cycles, under Spec                             *)

WordCats == CategoriesOf("tab1")

\* the last run was a word lookup and its script has ended
LookupEnded == cycle = "idle" /\ status["meta"] # "unissued"

\* C1: whichever completion calls of a word lookup throw, the cycle ends
\* with a result for all five categories: "Error: ..." for each one that
\* threw, the (stripped) completion content for each other one, and no
\* exception reaches the script.
C1_FailuresIsolated ==
    /\ ~raised
    /\ \A c \in WordCats :
          status[c] \in {"resolved", "rendered"} =>
              /\ response[c] # NoResponse
              /\ outcome[c].kind = "raise" =>
                    response[c] = ErrorPrefix \o outcome[c].body
              /\ outcome[c].kind = "text" => response[c] = Strip(outcome[c].body)
    /\ LookupEnded =>
          /\ \A c \in WordCats : status[c] = "rendered"
          /\ {page[i].category : i \in {j \in DOMAIN page : page[j].kind = "result"}}
                = WordCats

\* C1 witness: a lookup ended in which two calls threw and three did not
C1_Witness ==
    /\ LookupEnded
    /\ \A c \in WordCats : status[c] = "rendered"
    /\ Cardinality({c \in WordCats : outcome[c].kind = "raise"}) = 2
    /\ Cardinality({c \in WordCats : outcome[c].kind = "text"}) = 3
    /\ \A c \in WordCats :
          outcome[c].kind = "raise" <=> StartsWith(response[c], ErrorPrefix)

\* str.strip() leaves nothing: the input is empty or only whitespace
IsBlank(s) == Strip(s) = <<>>

\* C6: a button pressed with an empty or whitespace-only word (or sentence)
\* is a no-op: no request is issued and nothing is rendered in that run.
C6_BlankInputIsNoOp ==
    IsBlank(input) =>
        /\ \A c \in Categories : status[c] = "unissued"
        /\ page = <<>>

====
